---- MODULE Spec2Model ----
(***************************************************************************)
(* Model of the serper SDK request path: SearchQuery validation, the HTTP *)
(* transport (post_json / parse_json), SerperHttpClient::search,           *)
(* search_multiple and search_concurrent (tokio tasks gated by a counting  *)
(* semaphore), and SearchService::search_concurrent's default; and of the  *)
(* value types around it: SearchQuery and its builder, the deserialized    *)
(* SearchResponse, SdkConfig (new, from_env, validate), the constructors   *)
(* of SearchService, and utils::retry::with_retry.                         *)
(***************************************************************************)
EXTENDS Integers, Sequences, FiniteSets, TLC

\* ------------------------------------------------------------------ bounds
MaxQueries == 3        \* longest query list of a batch call
MaxText == 2           \* longest query text, in characters
MaxK == 2              \* largest explicit max_concurrent argument
MaxCalls == 3          \* longest sequence of setter calls on a builder
MaxItems == 2          \* longest list in a section of a response
MaxSearches == 2       \* most searches made on one constructed service
MaxAttempts == 3       \* largest max_attempts of a retry configuration

\* ------------------------------------------------------- program constants
DefaultMaxConcurrent == 5
MaxNumResults == 100
DefaultTimeoutSecs == 30
DefaultMaxConcurrentRequests == 5
DefaultRetryAttempts == 3
DefaultInitialDelayMillis == 100
DefaultMaxDelaySecs == 10

\* a list one longer than the default ceiling, to saturate it
ProbeQueries == DefaultMaxConcurrent + 1

\* ------------------------------------------------------------ Option<T>
None == [some |-> FALSE]
Some(x) == [some |-> TRUE, v |-> x]

\* ------------------------------------------------------------- strings
\* A String is a sequence of characters; " " stands for any whitespace.
Chars == {" ", "a", "b"}

RECURSIVE TextsOfLen(_)
TextsOfLen(n) ==
  IF n = 0 THEN {<<>>}
  ELSE {Append(s, c) : s \in TextsOfLen(n - 1), c \in Chars}

Texts == UNION {TextsOfLen(n) : n \in 0..MaxText}

RECURSIVE TrimStart(_)
TrimStart(s) ==
  IF s = <<>> THEN s
  ELSE IF Head(s) = " " THEN TrimStart(Tail(s)) ELSE s

RECURSIVE TrimEnd(_)
TrimEnd(s) ==
  IF s = <<>> THEN s
  ELSE IF s[Len(s)] = " " THEN TrimEnd(SubSeq(s, 1, Len(s) - 1)) ELSE s

\* str::trim
Trim(s) == TrimEnd(TrimStart(s))

\* str::is_empty
IsEmpty(s) == Len(s) = 0

\* Display of an unsigned integer: its decimal digits, one per element
DigitChar(d) ==
  CASE d = 0 -> "0" [] d = 1 -> "1" [] d = 2 -> "2" [] d = 3 -> "3"
    [] d = 4 -> "4" [] d = 5 -> "5" [] d = 6 -> "6" [] d = 7 -> "7"
    [] d = 8 -> "8" [] d = 9 -> "9"

RECURSIVE to_string(_)
to_string(n) ==
  IF n < 10 THEN <<DigitChar(n)>>
  ELSE Append(to_string(n \div 10), DigitChar(n % 10))

\* str::contains
Contains(s, needle) ==
  \E i \in 0..(Len(s) - Len(needle)) :
     \A j \in 1..Len(needle) : s[i + j] = needle[j]

\* ------------------------------------------------------------- errors
\* SerperError: the variant is `kind`, the payload is `message`.
ErrRequest(what) == [kind |-> "Request", message |-> <<what>>]
api_error(message) == [kind |-> "Api", message |-> message]
config_error(message) == [kind |-> "Config", message |-> message]
validation_error(message) == [kind |-> "Validation", message |-> message]

is_network_error(e) == e.kind = "Request"
is_parse_error(e) == e.kind = "Json"
is_api_error(e) == e.kind = "Api"

\* Result<T>
NoResult == [tag |-> "none"]
Ok(x) == [tag |-> "ok", val |-> x]
Err(e) == [tag |-> "err", err |-> e]

\* ------------------------------------------------------------ SearchQuery
Query(q, location, page, num) ==
  [q |-> q, location |-> location, gl |-> None, hl |-> None,
   page |-> page, num |-> num]

\* a validate that checks only the lower bound of num
validateNoUpperBound(query) ==
  IF IsEmpty(Trim(query.q))
  THEN Err(validation_error(<<"Query string cannot be empty">>))
  ELSE IF query.page.some /\ query.page.v = 0
  THEN Err(validation_error(<<"Page number must be greater than 0">>))
  ELSE IF query.num.some /\ query.num.v = 0
  THEN Err(validation_error(<<"Number of results must be between 1 and 100">>))
  ELSE Ok("unit")

\* a validate that does not look at page
validateNoPage(query) ==
  IF IsEmpty(Trim(query.q))
  THEN Err(validation_error(<<"Query string cannot be empty">>))
  ELSE IF query.num.some /\ (query.num.v = 0 \/ query.num.v > MaxNumResults)
  THEN Err(validation_error(<<"Number of results must be between 1 and 100">>))
  ELSE Ok("unit")

\* SearchQuery::validate
validate(query) ==
  IF IsEmpty(Trim(query.q))
  THEN Err(validation_error(<<"Query string cannot be empty">>))
  ELSE IF query.page.some /\ query.page.v = 0
  THEN Err(validation_error(<<"Page number must be greater than 0">>))
  ELSE IF query.num.some /\ (query.num.v = 0 \/ query.num.v > MaxNumResults)
  THEN Err(validation_error(<<"Number of results must be between 1 and 100">>))
  ELSE Ok("unit")

\* #[derive(Serialize)] with skip_serializing_if = "Option::is_none":
\* the JSON object as a function from the keys emitted to their values.
OptionalKeys == {"location", "gl", "hl", "page", "num"}

\* a serializer that writes every field, null for an absent one
SerializeWithNulls(query) ==
  [k \in {"q"} \cup OptionalKeys |->
     IF k = "q" THEN query.q ELSE IF query[k].some THEN query[k].v ELSE None]

Serialize(query) ==
  [k \in {"q"} \cup {f \in OptionalKeys : query[f].some} |->
     IF k = "q" THEN query.q ELSE query[k].v]

\* a constructor that stores the trimmed text
SearchQuery_newTrimmed(query) ==
  IF IsEmpty(Trim(query))
  THEN Err(validation_error(<<"Query string cannot be empty">>))
  ELSE Ok(Query(Trim(query), None, None, None))

\* SearchQuery::new
SearchQuery_new(query) ==
  IF IsEmpty(Trim(query))
  THEN Err(validation_error(<<"Query string cannot be empty">>))
  ELSE Ok(Query(query, None, None, None))

\* SearchQuery::with_location, with_country, with_language
with_location(query, location) == [query EXCEPT !.location = Some(location)]
with_country(query, country) == [query EXCEPT !.gl = Some(country)]
with_language(query, language) == [query EXCEPT !.hl = Some(language)]

\* a with_page that raises page 0 to the first page
with_pageClamped(query, page) ==
  [query EXCEPT !.page = Some(IF page = 0 THEN 1 ELSE page)]

\* SearchQuery::with_page, with_num_results: the value is stored as given
with_page(query, page) == [query EXCEPT !.page = Some(page)]
with_num_results(query, num) == [query EXCEPT !.num = Some(num)]

\* core::types::Pagination
Pagination(page, num_results) == [page |-> page, num_results |-> num_results]

\* SearchQuery::with_pagination: only the fields the Pagination holds
with_pagination(query, pagination) ==
  [query EXCEPT
     !.page = IF pagination.page.some THEN Some(pagination.page.v) ELSE @,
     !.num = IF pagination.num_results.some THEN Some(pagination.num_results.v) ELSE @]

\* ----------------------------------------------------- SearchQueryBuilder
\* SearchQueryBuilder::new
SearchQueryBuilder_new ==
  [query |-> None, location |-> None, country |-> None, language |-> None,
   page |-> None, num_results |-> None]

\* SearchQueryBuilder::query, location, country, language, page and
\* num_results: each stores Some(value) in the field of its name
builder_set(b, field, value) == [b EXCEPT ![field] = Some(value)]

\* a build that returns the query without a last validate()
buildUnchecked(b) ==
  IF ~b.query.some
  THEN Err(validation_error(<<"Query string is required">>))
  ELSE LET n == SearchQuery_new(b.query.v) IN
       IF n.tag = "err" THEN n
       ELSE LET q1 == IF b.location.some THEN with_location(n.val, b.location.v)
                      ELSE n.val
                q2 == IF b.country.some THEN with_country(q1, b.country.v) ELSE q1
                q3 == IF b.language.some THEN with_language(q2, b.language.v) ELSE q2
                q4 == IF b.page.some THEN with_page(q3, b.page.v) ELSE q3
            IN Ok(IF b.num_results.some THEN with_num_results(q4, b.num_results.v)
                  ELSE q4)

\* SearchQueryBuilder::build
build(b) ==
  IF ~b.query.some
  THEN Err(validation_error(<<"Query string is required">>))
  ELSE LET n == SearchQuery_new(b.query.v) IN
       IF n.tag = "err" THEN n
       ELSE LET q1 == IF b.location.some THEN with_location(n.val, b.location.v)
                      ELSE n.val
                q2 == IF b.country.some THEN with_country(q1, b.country.v) ELSE q1
                q3 == IF b.language.some THEN with_language(q2, b.language.v) ELSE q2
                q4 == IF b.page.some THEN with_page(q3, b.page.v) ELSE q3
                search_query ==
                  IF b.num_results.some THEN with_num_results(q4, b.num_results.v)
                  ELSE q4
                v == validate(search_query)
            IN IF v.tag = "err" THEN v ELSE Ok(search_query)

\* --------------------------------------------------------- SearchResponse
\* The sections validate_response reads; every section is an Option.
Response(meta, organic) == [search_metadata |-> meta, organic |-> organic]
Metadata(id) == [id |-> id]
Organic(title, link) == [title |-> title, link |-> link]

RECURSIVE FirstBadOrganic(_, _)
\* the first error of the loop over organic results, from index idx (0-based)
FirstBadOrganic(organic, idx) ==
  IF idx >= Len(organic) THEN Ok("unit")
  ELSE IF IsEmpty(organic[idx + 1].title)
  THEN Err(validation_error(<<"Organic result ">> \o to_string(idx) \o <<" has empty title">>))
  ELSE IF IsEmpty(organic[idx + 1].link)
  THEN Err(validation_error(<<"Organic result ">> \o to_string(idx) \o <<" has empty link">>))
  ELSE FirstBadOrganic(organic, idx + 1)

\* a validation that looks at the first organic result only
validate_responseFirstOnly(response) ==
  IF response.search_metadata.some /\ IsEmpty(response.search_metadata.v.id)
  THEN Err(validation_error(<<"Response metadata has empty ID">>))
  ELSE IF response.organic.some /\ response.organic.v # <<>>
  THEN FirstBadOrganic(<<response.organic.v[1]>>, 0)
  ELSE Ok("unit")

\* ResponseParser::validate_response
validate_response(response) ==
  IF response.search_metadata.some /\ IsEmpty(response.search_metadata.v.id)
  THEN Err(validation_error(<<"Response metadata has empty ID">>))
  ELSE IF response.organic.some
  THEN FirstBadOrganic(response.organic.v, 0)
  ELSE Ok("unit")

\* The top-level sections of a SearchResponse, by their JSON keys; the
\* sections that are lists, the others being objects.
SectionKeys ==
  {"search_metadata", "organic", "answer_box", "knowledge_graph",
   "related_questions", "shopping", "news"}
ListKeys == {"organic", "related_questions", "shopping", "news"}

\* JSON values: an array of items, an object; [t |-> "null"] is null and
\* [t |-> "string"] a string
JArray(items) == [t |-> "array", items |-> items]
JObject(fields) == [t |-> "object", fields |-> fields]

\* serde_json::from_value::<SearchResponse> of a JSON object.  For each
\* Option field a missing key and null give None, a value of the field's
\* type gives Some, a value of another type is an error; keys that are
\* not sections are ignored.
from_value(obj) ==
  LET missing(k) == k \notin DOMAIN obj \/ obj[k].t = "null"
      typed(k) == obj[k].t = (IF k \in ListKeys THEN "array" ELSE "object")
      field(k) == IF missing(k) THEN None
                  ELSE IF k \in ListKeys THEN Some(obj[k].items)
                  ELSE Some(obj[k].fields)
  IN IF \A k \in SectionKeys : missing(k) \/ typed(k)
     THEN Ok([k \in SectionKeys |-> field(k)])
     ELSE Err([kind |-> "Json", message |-> <<"invalid type">>])

\* a has_results that counts every list section
has_resultsAnyList(response) ==
  \/ \E k \in ListKeys : response[k].some /\ ~IsEmpty(response[k].v)
  \/ response.answer_box.some
  \/ response.knowledge_graph.some

\* SearchResponse::has_results
has_results(response) ==
  \/ (response.organic.some /\ ~IsEmpty(response.organic.v))
  \/ response.answer_box.some
  \/ response.knowledge_graph.some
  \/ (response.shopping.some /\ ~IsEmpty(response.shopping.v))
  \/ (response.news.some /\ ~IsEmpty(response.news.v))

\* SearchResponse::organic_count
organic_count(response) ==
  IF response.organic.some THEN Len(response.organic.v) ELSE 0

\* ------------------------------------------------------------- transport
\* What the server side can do with a request: the status codes it may
\* answer, whether the round trip may fail, and the bodies it may send.
Transports == {"ok", "flaky", "full"}

Statuses(t) ==
  CASE t = "ok" -> {200}
    [] t = "flaky" -> {200, 500}
    [] t = "full" -> {200, 299, 300, 404, 500, 599}

MayFail(t) == t \in {"flaky", "full"}

\* http::StatusCode::canonical_reason
canonical_reason(status) ==
  CASE status = 200 -> Some("OK")
    [] status = 300 -> Some("Multiple Choices")
    [] status = 404 -> Some("Not Found")
    [] status = 500 -> Some("Internal Server Error")
    [] OTHER -> None

unwrap_or(opt, default) == IF opt.some THEN opt.v ELSE default

\* http::StatusCode::is_success
is_success(status) == 200 <= status /\ status <= 299

\* a message made of the reason phrase alone
ApiMessageReasonOnly(status) ==
  <<"HTTP ", unwrap_or(canonical_reason(status), "Unknown error")>>

\* format!("HTTP {} - {}", status, reason): the message as its pieces.
\* Display of a StatusCode is its number, a space and its reason.
ApiMessage(status) ==
  <<"HTTP ">> \o to_string(status)
    \o <<" ", unwrap_or(canonical_reason(status), "<unknown status code>")>>
    \o <<" - ", unwrap_or(canonical_reason(status), "Unknown error")>>

\* A response body: not JSON at all, JSON of another shape, or the JSON of
\* a SearchResponse.
Garbage == [kind |-> "garbage"]
WrongShape == [kind |-> "wrong_shape"]
Json(response) == [kind |-> "json", value |-> response]

GoodBody(payload) ==
  Json(Response(Some(Metadata(payload["q"])),
                Some(<<Organic(payload["q"], <<"l">>)>>)))

Bodies(t, payload) ==
  CASE t = "ok" -> {GoodBody(payload)}
    [] t = "flaky" -> {GoodBody(payload), Garbage}
    [] t = "full" ->
         {GoodBody(payload), Garbage, WrongShape,
          Json(Response(None, None)),
          Json(Response(Some(Metadata(<<>>)), None)),
          Json(Response(None, Some(<<Organic(<<>>, <<"l">>)>>))),
          Json(Response(None, Some(<<Organic(<<"t">>, <<"l">>), Organic(<<"t">>, <<>>)>>)))}

\* HttpTransport::post_json after send(): the status check
CheckStatus(status) ==
  IF ~is_success(status) THEN Err(api_error(ApiMessage(status))) ELSE Ok(status)

\* a parse that falls back to the empty response (unwrap_or_default)
parse_json_or_default(body) ==
  IF body.kind = "json" THEN Ok(body.value) ELSE Ok(Response(None, None))

\* a parse that reports a body it cannot decode as a JSON error
parse_jsonAsJson(body) ==
  IF body.kind = "json" THEN Ok(body.value)
  ELSE Err([kind |-> "Json", message |-> <<"decode">>])

\* HttpTransport::parse_json: response.json().await.map_err(SerperError::Request)
parse_json(body) ==
  IF body.kind = "json" THEN Ok(body.value) ELSE Err(ErrRequest("decode"))

\* --------------------------------------------------------------- SdkConfig
\* Texts of the configuration: a scheme is spelled out, a host or a key is
\* one element.
HttpPrefix == <<"h", "t", "t", "p", ":", "/", "/">>
HttpsPrefix == <<"h", "t", "t", "p", "s", ":", "/", "/">>

\* str::starts_with
starts_with(s, prefix) ==
  Len(s) >= Len(prefix) /\ SubSeq(s, 1, Len(prefix)) = prefix

\* str::to_lowercase, over the letters the texts use
RECURSIVE to_lowercase(_)
to_lowercase(s) ==
  LET lower(c) ==
        CASE c = "T" -> "t" [] c = "R" -> "r" [] c = "U" -> "u" [] c = "E" -> "e"
          [] OTHER -> c
  IN IF s = <<>> THEN <<>> ELSE <<lower(Head(s))>> \o to_lowercase(Tail(s))

\* the value of a sequence of decimal digits
RECURSIVE DigitsValue(_)
DigitsValue(digits) ==
  LET value(c) ==
        CASE c = "0" -> 0 [] c = "1" -> 1 [] c = "2" -> 2 [] c = "3" -> 3
          [] c = "4" -> 4 [] c = "5" -> 5 [] c = "6" -> 6 [] c = "7" -> 7
          [] c = "8" -> 8 [] c = "9" -> 9
  IN IF digits = <<>> THEN 0
     ELSE DigitsValue(SubSeq(digits, 1, Len(digits) - 1)) * 10
            + value(digits[Len(digits)])

\* a parse that gives 0 for a text that is not a number
parseOrZero(s) ==
  LET digits == IF s # <<>> /\ Head(s) = "+" THEN Tail(s) ELSE s IN
  IF digits # <<>>
       /\ \A k \in 1..Len(digits) :
            digits[k] \in {"0", "1", "2", "3", "4", "5", "6", "7", "8", "9"}
  THEN Ok(DigitsValue(digits))
  ELSE Ok(0)

\* str::parse::<u64> and ::<usize>: an optional "+", then one or more
\* decimal digits and nothing else (the texts used stay below overflow)
parse(s) ==
  LET digits == IF s # <<>> /\ Head(s) = "+" THEN Tail(s) ELSE s IN
  IF digits # <<>>
       /\ \A k \in 1..Len(digits) :
            digits[k] \in {"0", "1", "2", "3", "4", "5", "6", "7", "8", "9"}
  THEN Ok(DigitsValue(digits))
  ELSE Err("ParseIntError")

\* std::time::Duration, in microseconds
from_secs(secs) == secs * 1000000
as_secs(duration) == duration \div 1000000

\* SdkConfig::new
SdkConfig_new(api_key) ==
  [api_key |-> api_key,
   base_url |-> HttpsPrefix \o <<"google.serper.dev">>,
   timeout |-> from_secs(DefaultTimeoutSecs),
   max_concurrent_requests |-> DefaultMaxConcurrentRequests,
   default_headers |-> {<<"Content-Type", "application/json">>},
   user_agent |-> <<"serper-sdk/", "CARGO_PKG_VERSION">>,
   enable_logging |-> FALSE]

\* SdkConfig::with_base_url, with_timeout, with_max_concurrent
with_base_url(config, base_url) == [config EXCEPT !.base_url = base_url]
with_timeout(config, timeout) == [config EXCEPT !.timeout = timeout]
with_max_concurrent(config, max_concurrent) ==
  [config EXCEPT !.max_concurrent_requests = max_concurrent]

\* SdkConfig::from_env.  The environment is a function from the names of
\* the variables to Option<String> (std::env::var); each `if let Ok(..)`
\* block changes the field of its variable.
from_env(env) ==
  IF ~env["SERPER_API_KEY"].some
  THEN Err(config_error(<<"SERPER_API_KEY environment variable is required">>))
  ELSE
    LET var(name) == env[name]
        c0 == SdkConfig_new(var("SERPER_API_KEY").v)
        c1 == IF var("SERPER_BASE_URL").some
              THEN [c0 EXCEPT !.base_url = var("SERPER_BASE_URL").v] ELSE c0
        c2 == IF var("SERPER_TIMEOUT_SECS").some
                   /\ parse(var("SERPER_TIMEOUT_SECS").v).tag = "ok"
              THEN [c1 EXCEPT
                      !.timeout = from_secs(parse(var("SERPER_TIMEOUT_SECS").v).val)]
              ELSE c1
        c3 == IF var("SERPER_MAX_CONCURRENT").some
                   /\ parse(var("SERPER_MAX_CONCURRENT").v).tag = "ok"
              THEN [c2 EXCEPT
                      !.max_concurrent_requests =
                         parse(var("SERPER_MAX_CONCURRENT").v).val]
              ELSE c2
        c4 == IF var("SERPER_USER_AGENT").some
              THEN [c3 EXCEPT !.user_agent = var("SERPER_USER_AGENT").v] ELSE c3
        c5 == IF var("SERPER_ENABLE_LOGGING").some
              THEN [c4 EXCEPT
                      !.enable_logging =
                         (to_lowercase(var("SERPER_ENABLE_LOGGING").v)
                            = <<"t", "r", "u", "e">>)]
              ELSE c4
    IN Ok(c5)

\* SdkConfig::validate
SdkConfig_validate(config) ==
  IF IsEmpty(Trim(config.api_key))
  THEN Err(config_error(<<"API key cannot be empty">>))
  ELSE IF IsEmpty(Trim(config.base_url))
  THEN Err(config_error(<<"Base URL cannot be empty">>))
  ELSE IF ~starts_with(config.base_url, HttpPrefix)
            /\ ~starts_with(config.base_url, HttpsPrefix)
  THEN Err(config_error(<<"Base URL must start with http:// or https://">>))
  ELSE IF as_secs(config.timeout) = 0
  THEN Err(config_error(<<"Timeout must be greater than 0">>))
  ELSE IF config.max_concurrent_requests = 0
  THEN Err(config_error(<<"Max concurrent requests must be greater than 0">>))
  ELSE Ok("unit")

\* ----------------------------------------------------------- SearchService
\* an ApiKey::new that rejects the empty key only
ApiKey_newNonEmpty(key) ==
  IF IsEmpty(key) THEN Err([kind |-> "InvalidApiKey", message |-> <<>>])
  ELSE Ok(key)

\* ApiKey::new
ApiKey_new(key) ==
  IF IsEmpty(Trim(key)) THEN Err([kind |-> "InvalidApiKey", message |-> <<>>])
  ELSE Ok(key)

\* BaseUrl::default
BaseUrl_default == HttpsPrefix \o <<"google.serper.dev">>

\* TransportConfig::new
TransportConfig_new ==
  [timeout |-> from_secs(DefaultTimeoutSecs),
   default_headers |-> [k \in {"Content-Type"} |-> <<"application/json">>],
   user_agent |-> <<"serper-sdk/", "CARGO_PKG_VERSION">>]

\* SerperHttpClient::with_config, and SerperHttpClient::new with the
\* defaults: HttpTransport::with_config builds the reqwest client, which
\* may fail (`builds` is whether it succeeds)
SerperHttpClient_with_config(api_key, base_url, config, builds) ==
  IF ~builds THEN Err(ErrRequest("builder"))
  ELSE Ok([api_key |-> api_key, base_url |-> base_url, transport |-> config])

\* SearchService::new
SearchService_new(api_key, builds) ==
  LET k == ApiKey_new(api_key) IN
  IF k.tag = "err" THEN k
  ELSE SerperHttpClient_with_config(k.val, BaseUrl_default, TransportConfig_new, builds)

\* SearchService::with_config
SearchService_with_config(api_key, base_url, config, builds) ==
  LET k == ApiKey_new(api_key) IN
  IF k.tag = "err" THEN k
  ELSE SerperHttpClient_with_config(k.val, base_url, config, builds)

\* SearchServiceBuilder::build, on a builder [api_key, base_url,
\* transport_config]
SearchServiceBuilder_build(b, builds) ==
  IF ~b.api_key.some THEN Err(config_error(<<"API key is required">>))
  ELSE IF b.base_url.some
  THEN SearchService_with_config(b.api_key.v, b.base_url.v, b.transport_config, builds)
  ELSE LET api_key_obj == ApiKey_new(b.api_key.v) IN
       IF api_key_obj.tag = "err" THEN api_key_obj
       ELSE SerperHttpClient_with_config(api_key_obj.val, BaseUrl_default,
                                         b.transport_config, builds)

\* The request post_json makes: POST, the X-API-KEY header, the default
\* headers but Content-Type, and the JSON body with its Content-Type
post_json_request(client, body) ==
  [method |-> "POST",
   url |-> client.base_url \o <<"/search">>,
   headers |->
     [k \in {"X-API-KEY", "Content-Type"} \cup DOMAIN client.transport.default_headers |->
        IF k = "X-API-KEY" THEN client.api_key
        ELSE IF k = "Content-Type" THEN <<"application/json">>
        ELSE client.transport.default_headers[k]],
   body |-> Serialize(body)]

\* ------------------------------------------------------ retry::with_retry
\* Duration::as_millis, Duration::from_millis
as_millis(duration) == duration \div 1000
from_millis(millis) == millis * 1000

\* RetryConfig::new
RetryConfig_new ==
  [max_attempts |-> DefaultRetryAttempts,
   initial_delay |-> from_millis(DefaultInitialDelayMillis),
   backoff_multiplier |-> 2,
   max_delay |-> from_secs(DefaultMaxDelaySecs)]

\* The delay after a sleep of `delay`:
\* min(from_millis((delay.as_millis() as f64 * multiplier) as u64), max_delay),
\* for a whole multiplier (the products stay far below 2^53)
next_delay(delay, config) ==
  LET multiplied == from_millis(as_millis(delay) * config.backoff_multiplier) IN
  IF multiplied <= config.max_delay THEN multiplied ELSE config.max_delay

\* E: Into<SerperError>, for the error types the crate converts: a
\* reqwest::Error, a serde_json::Error (#[from]) and a SerperError itself
into(error) ==
  CASE error.type = "reqwest::Error" -> ErrRequest(error.what)
    [] error.type = "serde_json::Error" -> [kind |-> "Json", message |-> <<error.what>>]
    [] error.type = "SerperError" -> error.e

\* ------------------------------------------------------------------ state
VARIABLES
  op,          \* the call under way: "search", "multiple" or "concurrent"
  transport,   \* what the server side may do (see Statuses, Bodies)
  queries,     \* the queries passed to the call
  maxArg,      \* SearchService::search_concurrent's Option<usize> argument
  callerPc,    \* where the caller of the batch operation stands
  idx,         \* the caller's loop position (spawn loop, join loop, for loop)
  permits,     \* free permits of the semaphore
  results,     \* the caller's `results` vector
  ret,         \* the value the call returned
  tasks,       \* per query: the state of its search (and of its tokio task)
  lib          \* the value types under exercise, apart from any call (see LibIdle)

serviceVars == <<op, transport, queries, maxArg, callerPc, idx, permits, results, ret, tasks>>
vars == <<serviceVars, lib>>

\* No query, builder, response or configuration under construction.
\* sq: the Result of SearchQuery::new, then the query the with_* chain
\* holds; checked: what validate() returned for it; serialized: its JSON
\* payload.  builder: a SearchQueryBuilder; calls: the setter calls made on
\* it, in order; built: what build() returned.  jsonIn: a JSON object given
\* to the response deserializer; parsed: the Result of deserializing it;
\* seen: what has_results() and organic_count() answered.  cfg: the Result
\* of SdkConfig::new or from_env, then the configuration the with_* chain
\* holds; verdict: what SdkConfig::validate() returned for it.  service:
\* the Result of a SearchService constructor; requests: the requests that
\* service sent.  lastCall: the last call that made the value sq, cfg or
\* service holds, with its argument.  retry: one call of with_retry: where
\* it stands (pc), its config, its locals attempt, delay and last_error,
\* the invocations of the operation and the sleeps so far, in order
\* (trace), and what it returned.
LibIdle ==
  [sq |-> NoResult, checked |-> NoResult, serialized |-> None,
   builder |-> None, calls |-> <<>>, built |-> NoResult,
   jsonIn |-> None, parsed |-> NoResult,
   seen |-> [has_results |-> None, organic_count |-> None],
   cfg |-> NoResult, verdict |-> NoResult,
   service |-> NoResult, requests |-> <<>>,
   retry |-> [pc |-> "idle", config |-> None, attempt |-> 0, delay |-> 0,
              last_error |-> None, trace |-> <<>>, ret |-> NoResult],
   lastCall |-> None]

\* The state in which the value types are exercised: no call under way on
\* the service, nothing constructed yet
LibInit ==
  /\ op = "none"
  /\ transport = "ok"
  /\ queries = <<>>
  /\ maxArg = None
  /\ callerPc = "start"
  /\ idx = 0
  /\ permits = 0
  /\ results = <<>>
  /\ ret = NoResult
  /\ tasks = <<>>
  /\ lib = LibIdle

N == Len(queries)
Ids == 1..N

\* One execution of SerperHttpClient::search.  pc: "idle" not started,
\* "waiting" spawned and awaiting a permit, "running" inside search before
\* the request is sent, "sent" request in flight, "reading" 2xx received
\* and body being read, "done" returned, "panicked" ended without a result.
\* permit: the task holds `_permit`.
\* wire: the payloads it sent; status, body: what it received; res: what
\* search returned.
NewTask ==
  [pc |-> "idle", permit |-> FALSE, res |-> NoResult, wire |-> <<>>,
   status |-> None, body |-> None]

\* ------------------------------------------------------------- scenarios
PageArgs == {None, Some(0), Some(1), Some(2)}
NumArgs == {None, Some(0), Some(1), Some(MaxNumResults), Some(MaxNumResults + 1)}

QueryPool == {Query(q, None, page, num) : q \in Texts, page \in PageArgs, num \in NumArgs}

\* Batch inputs: the query at position i is either a valid query whose
\* text names its position, or a blank one that fails validate().
Numbered(i) == Query(to_string(i), None, Some(i), None)
QBlank == Query(<<" ">>, None, None, None)

BatchLists ==
  UNION {{qs \in [1..n -> {Numbered(i) : i \in 1..n} \cup {QBlank}] :
            \A i \in 1..n : qs[i] \in {Numbered(i), QBlank}} : n \in 0..MaxQueries}
ProbeList == [i \in 1..ProbeQueries |-> Numbered(i)]
MaxArgs == {None} \cup {Some(k) : k \in 0..MaxK}

Scenarios ==
  {[op |-> "search", transport |-> "full", queries |-> <<q>>, maxArg |-> None] :
      q \in QueryPool}
  \cup {[op |-> "multiple", transport |-> "full", queries |-> qs, maxArg |-> None] :
      qs \in BatchLists}
  \cup {[op |-> "concurrent", transport |-> t, queries |-> qs, maxArg |-> m] :
      t \in {"ok", "flaky"}, qs \in BatchLists, m \in MaxArgs}
  \cup {[op |-> "concurrent", transport |-> "ok", queries |-> ProbeList, maxArg |-> None]}

Init ==
  /\ \E sc \in Scenarios :
       /\ op = sc.op
       /\ transport = sc.transport
       /\ queries = sc.queries
       /\ maxArg = sc.maxArg
  /\ callerPc = "start"
  /\ idx = 0
  /\ permits = 0
  /\ results = <<>>
  /\ ret = NoResult
  /\ tasks = [i \in 1..Len(queries) |-> NewTask]
  /\ lib = LibIdle

\* ----------------------------------------------- SerperHttpClient::search
\* a task that gives its permit back only when its search succeeded
FinishLeak(i, t, r) ==
  /\ tasks' = [tasks EXCEPT ![i] = [t EXCEPT !.pc = "done", !.res = r,
                                              !.permit = (t.permit /\ r.tag = "err")]]
  /\ permits' = IF t.permit /\ r.tag = "ok" THEN permits + 1 ELSE permits

\* The task's async block ends: its result is stored and, in a spawned
\* task, `_permit` is dropped.
Finish(i, t, r) ==
  /\ tasks' = [tasks EXCEPT ![i] = [t EXCEPT !.pc = "done", !.res = r, !.permit = FALSE]]
  /\ permits' = IF t.permit THEN permits + 1 ELSE permits

\* a search that sends the request first and validates the query after
SendThenValidate(i) ==
  /\ tasks[i].pc = "running"
  /\ LET v == validate(queries[i])
         t == [tasks[i] EXCEPT !.wire = Append(@, Serialize(queries[i]))]
     IN IF v.tag = "err"
        THEN Finish(i, t, v)
        ELSE /\ tasks' = [tasks EXCEPT ![i] = [t EXCEPT !.pc = "sent"]]
             /\ UNCHANGED permits
  /\ UNCHANGED <<op, transport, queries, maxArg, callerPc, idx, results, ret>>
  /\ UNCHANGED lib

\* query.validate()?, then the request is built and send() is polled
ValidateAndSend(i) ==
  /\ tasks[i].pc = "running"
  /\ LET v == validate(queries[i]) IN
       IF v.tag = "err"
       THEN Finish(i, tasks[i], v)
       ELSE /\ tasks' = [tasks EXCEPT ![i].pc = "sent",
                                      ![i].wire = Append(@, Serialize(queries[i]))]
            /\ UNCHANGED permits
  /\ UNCHANGED <<op, transport, queries, maxArg, callerPc, idx, results, ret>>
  /\ UNCHANGED lib

\* a send that is tried again once when it fails
SendFailsRetry(i) ==
  /\ tasks[i].pc = "sent"
  /\ MayFail(transport)
  /\ IF Len(tasks[i].wire) < 2
     THEN /\ tasks' = [tasks EXCEPT ![i].wire = Append(@, Serialize(queries[i]))]
          /\ UNCHANGED permits
     ELSE Finish(i, tasks[i], Err(ErrRequest("send")))
  /\ UNCHANGED <<op, transport, queries, maxArg, callerPc, idx, results, ret>>
  /\ UNCHANGED lib

\* send().await fails: map_err(SerperError::Request)?
SendFails(i) ==
  /\ tasks[i].pc = "sent"
  /\ MayFail(transport)
  /\ Finish(i, tasks[i], Err(ErrRequest("send")))
  /\ UNCHANGED <<op, transport, queries, maxArg, callerPc, idx, results, ret>>
  /\ UNCHANGED lib

\* send().await yields a response with some status; post_json checks it
ReceiveStatus(i) ==
  /\ tasks[i].pc = "sent"
  /\ \E status \in Statuses(transport) :
       LET t == [tasks[i] EXCEPT !.status = Some(status)]
           c == CheckStatus(status)
       IN IF c.tag = "err"
          THEN Finish(i, t, c)
          ELSE /\ tasks' = [tasks EXCEPT ![i] = [t EXCEPT !.pc = "reading"]]
               /\ UNCHANGED permits
  /\ UNCHANGED <<op, transport, queries, maxArg, callerPc, idx, results, ret>>
  /\ UNCHANGED lib

\* parse_json(response).await?, validate_response(..)?, Ok(search_response)
ReadBody(i) ==
  /\ tasks[i].pc = "reading"
  /\ \E body \in Bodies(transport, tasks[i].wire[Len(tasks[i].wire)]) :
       LET t == [tasks[i] EXCEPT !.body = Some(body)]
           p == parse_json(body)
       IN IF p.tag = "err"
          THEN Finish(i, t, p)
          ELSE LET v == validate_response(p.val) IN
               IF v.tag = "err" THEN Finish(i, t, v) ELSE Finish(i, t, Ok(p.val))
  /\ UNCHANGED <<op, transport, queries, maxArg, callerPc, idx, results, ret>>
  /\ UNCHANGED lib

\* ------------------------------------------------- a single search call
\* SearchService::search -> SerperHttpClient::search
CallSearch ==
  /\ callerPc = "start"
  /\ op = "search"
  /\ tasks' = [tasks EXCEPT ![1].pc = "running"]
  /\ callerPc' = "awaiting"
  /\ UNCHANGED <<op, transport, queries, maxArg, idx, permits, results, ret>>
  /\ UNCHANGED lib

SearchReturn ==
  /\ callerPc = "awaiting"
  /\ tasks[1].pc = "done"
  /\ ret' = tasks[1].res
  /\ callerPc' = "returned"
  /\ UNCHANGED <<op, transport, queries, maxArg, idx, permits, results, tasks>>
  /\ UNCHANGED lib

\* ------------------------------------ SerperHttpClient::search_multiple
\* a vector filled from the front: results.insert(0, result)
PushFront(vec, x) == <<x>> \o vec

\* Vec::push
Push(vec, x) == Append(vec, x)

\* let mut results = Vec::with_capacity(..); the for loop begins
CallMultiple ==
  /\ callerPc = "start"
  /\ op = "multiple"
  /\ results' = <<>>
  /\ idx' = 1
  /\ callerPc' = "loop"
  /\ UNCHANGED <<op, transport, queries, maxArg, permits, ret, tasks>>
  /\ UNCHANGED lib

\* a loop that starts the searches without awaiting the one before
MultipleCallEager ==
  /\ callerPc = "loop"
  /\ \E j \in Ids :
       /\ tasks[j].pc = "idle"
       /\ tasks' = [tasks EXCEPT ![j].pc = "running"]
  /\ UNCHANGED <<op, transport, queries, maxArg, callerPc, idx, permits, results, ret>>
  /\ UNCHANGED lib

\* self.search(query) is called for the query the loop stands at
MultipleCall ==
  /\ callerPc = "loop"
  /\ idx <= N
  /\ tasks[idx].pc = "idle"
  /\ tasks' = [tasks EXCEPT ![idx].pc = "running"]
  /\ UNCHANGED <<op, transport, queries, maxArg, callerPc, idx, permits, results, ret>>
  /\ UNCHANGED lib

\* a loop that skips a failed query and goes on with the next one
MultipleAwaitSkip ==
  /\ callerPc = "loop"
  /\ idx <= N
  /\ tasks[idx].pc = "done"
  /\ results' = IF tasks[idx].res.tag = "ok"
                THEN Push(results, tasks[idx].res.val) ELSE results
  /\ idx' = idx + 1
  /\ UNCHANGED <<op, transport, queries, maxArg, callerPc, permits, ret, tasks>>
  /\ UNCHANGED lib

\* .await? on that search: push and go on, or return its error
MultipleAwait ==
  /\ callerPc = "loop"
  /\ idx <= N
  /\ tasks[idx].pc = "done"
  /\ IF tasks[idx].res.tag = "ok"
     THEN /\ results' = Push(results, tasks[idx].res.val)
          /\ idx' = idx + 1
          /\ UNCHANGED <<callerPc, ret>>
     ELSE /\ ret' = tasks[idx].res
          /\ callerPc' = "returned"
          /\ UNCHANGED <<results, idx>>
  /\ UNCHANGED <<op, transport, queries, maxArg, permits, tasks>>
  /\ UNCHANGED lib

\* Ok(results)
MultipleReturn ==
  /\ callerPc = "loop"
  /\ idx > N
  /\ ret' = Ok(results)
  /\ callerPc' = "returned"
  /\ UNCHANGED <<op, transport, queries, maxArg, idx, permits, results, tasks>>
  /\ UNCHANGED lib

\* ---------------------------------- SerperHttpClient::search_concurrent
\* SearchService::search_concurrent: max_concurrent.unwrap_or(5)
MaxConcurrent == unwrap_or(maxArg, DefaultMaxConcurrent)

\* a semaphore created with one permit too many
NewSemaphoreOffByOne(max_concurrent) == max_concurrent + 1

\* Semaphore::new(max_concurrent)
NewSemaphore(max_concurrent) == max_concurrent

\* a call that rejects max_concurrent = 0 before it spawns anything
CallConcurrentChecked ==
  /\ callerPc = "start"
  /\ op = "concurrent"
  /\ IF MaxConcurrent = 0
     THEN /\ ret' = Err(config_error(<<"max_concurrent must be greater than 0">>))
          /\ callerPc' = "returned"
          /\ UNCHANGED <<permits, idx>>
     ELSE /\ permits' = NewSemaphore(MaxConcurrent)
          /\ idx' = 1
          /\ callerPc' = "spawning"
          /\ UNCHANGED ret
  /\ UNCHANGED <<op, transport, queries, maxArg, results, tasks>>
  /\ UNCHANGED lib

\* the semaphore is created, the spawn loop begins
CallConcurrent ==
  /\ callerPc = "start"
  /\ op = "concurrent"
  /\ permits' = NewSemaphore(MaxConcurrent)
  /\ idx' = 1
  /\ callerPc' = "spawning"
  /\ UNCHANGED <<op, transport, queries, maxArg, results, ret, tasks>>
  /\ UNCHANGED lib

\* tokio::spawn(async move { .. }); handles.push(handle)
Spawn ==
  /\ callerPc = "spawning"
  /\ idx <= N
  /\ tasks' = [tasks EXCEPT ![idx].pc = "waiting"]
  /\ idx' = idx + 1
  /\ UNCHANGED <<op, transport, queries, maxArg, callerPc, permits, results, ret>>
  /\ UNCHANGED lib

\* the spawn loop ends; let mut results = ..; the join loop begins
SpawnDone ==
  /\ callerPc = "spawning"
  /\ idx > N
  /\ results' = <<>>
  /\ idx' = 1
  /\ callerPc' = "joining"
  /\ UNCHANGED <<op, transport, queries, maxArg, permits, ret, tasks>>
  /\ UNCHANGED lib

\* an acquire that is granted only while a second permit is free
AcquireNeedsTwo(i) ==
  /\ tasks[i].pc = "waiting"
  /\ permits > 1
  /\ permits' = permits - 1
  /\ tasks' = [tasks EXCEPT ![i].pc = "running", ![i].permit = TRUE]
  /\ UNCHANGED <<op, transport, queries, maxArg, callerPc, idx, results, ret>>
  /\ UNCHANGED lib

\* an acquire that takes two permits from the semaphore when it can
AcquireTakesTwo(i) ==
  /\ tasks[i].pc = "waiting"
  /\ permits > 0
  /\ permits' = IF permits > 1 THEN permits - 2 ELSE permits - 1
  /\ tasks' = [tasks EXCEPT ![i].pc = "running", ![i].permit = TRUE]
  /\ UNCHANGED <<op, transport, queries, maxArg, callerPc, idx, results, ret>>
  /\ UNCHANGED lib

\* semaphore.acquire().await in a spawned task, then client.search(&query)
Acquire(i) ==
  /\ tasks[i].pc = "waiting"
  /\ permits > 0
  /\ permits' = permits - 1
  /\ tasks' = [tasks EXCEPT ![i].pc = "running", ![i].permit = TRUE]
  /\ UNCHANGED <<op, transport, queries, maxArg, callerPc, idx, results, ret>>
  /\ UNCHANGED lib

\* A spawned task ends without a result: its future panicked or was
\* aborted (pc "panicked").  The future is dropped, `_permit` with it.
TaskFailsToJoin(i) ==
  /\ tasks[i].pc \in {"waiting", "running", "sent", "reading"}
  /\ tasks' = [tasks EXCEPT ![i].pc = "panicked", ![i].permit = FALSE]
  /\ permits' = IF tasks[i].permit THEN permits + 1 ELSE permits
  /\ UNCHANGED <<op, transport, queries, maxArg, callerPc, idx, results, ret>>
  /\ UNCHANGED lib

\* a join that reports a JoinError as a validation error
JoinErrorAsValidation ==
  /\ callerPc = "joining"
  /\ idx <= N
  /\ tasks[idx].pc \in {"done", "panicked"}
  /\ IF tasks[idx].pc = "panicked"
     THEN /\ ret' = Err(validation_error(<<"Task join error: ", "JoinError">>))
          /\ callerPc' = "returned"
          /\ UNCHANGED <<results, idx>>
     ELSE IF tasks[idx].res.tag = "ok"
     THEN /\ results' = Push(results, tasks[idx].res.val)
          /\ idx' = idx + 1
          /\ UNCHANGED <<callerPc, ret>>
     ELSE /\ ret' = tasks[idx].res
          /\ callerPc' = "returned"
          /\ UNCHANGED <<results, idx>>
  /\ UNCHANGED <<op, transport, queries, maxArg, permits, tasks>>
  /\ UNCHANGED lib

\* a join that, when the task it stands at has failed, returns the error
\* of any task from there on that has failed by then
JoinLatestError ==
  /\ callerPc = "joining"
  /\ idx <= N
  /\ tasks[idx].pc = "done"
  /\ IF tasks[idx].res.tag = "ok"
     THEN /\ results' = Push(results, tasks[idx].res.val)
          /\ idx' = idx + 1
          /\ UNCHANGED <<callerPc, ret>>
     ELSE /\ \E j \in idx..N :
               /\ tasks[j].pc = "done"
               /\ tasks[j].res.tag = "err"
               /\ ret' = tasks[j].res
          /\ callerPc' = "returned"
          /\ UNCHANGED <<results, idx>>
  /\ UNCHANGED <<op, transport, queries, maxArg, permits, tasks>>
  /\ UNCHANGED lib

\* a join that drops the failed tasks and returns the other results
JoinSkipFailed ==
  /\ callerPc = "joining"
  /\ idx <= N
  /\ tasks[idx].pc = "done"
  /\ results' = IF tasks[idx].res.tag = "ok"
                THEN Push(results, tasks[idx].res.val) ELSE results
  /\ idx' = idx + 1
  /\ UNCHANGED <<op, transport, queries, maxArg, callerPc, permits, ret, tasks>>
  /\ UNCHANGED lib

\* a join that fails fast: it returns the error of whichever task has
\* failed, without awaiting the handles before it (try_join_all)
JoinFailFast ==
  /\ callerPc = "joining"
  /\ idx <= N
  /\ \/ /\ tasks[idx].pc = "done"
        /\ tasks[idx].res.tag = "ok"
        /\ results' = Push(results, tasks[idx].res.val)
        /\ idx' = idx + 1
        /\ UNCHANGED <<callerPc, ret>>
     \/ \E j \in idx..N :
          /\ tasks[j].pc = "done"
          /\ tasks[j].res.tag = "err"
          /\ ret' = tasks[j].res
          /\ callerPc' = "returned"
          /\ UNCHANGED <<results, idx>>
  /\ UNCHANGED <<op, transport, queries, maxArg, permits, tasks>>
  /\ UNCHANGED lib

\* handle.await.map_err(..)?? on the handle the join loop stands at: a
\* JoinError becomes a configuration error and is returned; otherwise push
\* and go on, or return the task's error (the handles left are dropped,
\* which detaches their tasks)
Join ==
  /\ callerPc = "joining"
  /\ idx <= N
  /\ tasks[idx].pc \in {"done", "panicked"}
  /\ IF tasks[idx].pc = "panicked"
     THEN /\ ret' = Err(config_error(<<"Task join error: ", "JoinError">>))
          /\ callerPc' = "returned"
          /\ UNCHANGED <<results, idx>>
     ELSE IF tasks[idx].res.tag = "ok"
     THEN /\ results' = Push(results, tasks[idx].res.val)
          /\ idx' = idx + 1
          /\ UNCHANGED <<callerPc, ret>>
     ELSE /\ ret' = tasks[idx].res
          /\ callerPc' = "returned"
          /\ UNCHANGED <<results, idx>>
  /\ UNCHANGED <<op, transport, queries, maxArg, permits, tasks>>
  /\ UNCHANGED lib

\* Ok(results)
ConcurrentReturn ==
  /\ callerPc = "joining"
  /\ idx > N
  /\ ret' = Ok(results)
  /\ callerPc' = "returned"
  /\ UNCHANGED <<op, transport, queries, maxArg, idx, permits, results, tasks>>
  /\ UNCHANGED lib

\* --------------------------------------------------------- specification
Next ==
  \/ CallSearch
  \/ SearchReturn
  \/ CallMultiple
  \/ MultipleCall
  \/ MultipleAwait
  \/ MultipleReturn
  \/ CallConcurrent
  \/ Spawn
  \/ SpawnDone
  \/ Join
  \/ ConcurrentReturn
  \/ \E i \in Ids : Acquire(i)
  \/ \E i \in Ids : ValidateAndSend(i)
  \/ \E i \in Ids : SendFails(i)
  \/ \E i \in Ids : ReceiveStatus(i)
  \/ \E i \in Ids : ReadBody(i)

Spec == Init /\ [][Next]_vars

\* ---------------------------------- search_concurrent under fair scheduling
\* The calls of search_concurrent over the batch lists
InitConcurrent ==
  /\ Init
  /\ op = "concurrent"
  /\ Len(queries) <= MaxQueries

\* What a task does next, whichever step that is
TaskStep(i) ==
  IF i \in Ids
  THEN \/ Acquire(i)
       \/ ValidateAndSend(i)
       \/ SendFails(i)
       \/ ReceiveStatus(i)
       \/ ReadBody(i)
  ELSE FALSE

NextConcurrent ==
  \/ CallConcurrent
  \/ Spawn
  \/ SpawnDone
  \/ Join
  \/ ConcurrentReturn
  \/ \E i \in Ids : Acquire(i)
  \/ \E i \in Ids : ValidateAndSend(i)
  \/ \E i \in Ids : SendFails(i)
  \/ \E i \in Ids : ReceiveStatus(i)
  \/ \E i \in Ids : ReadBody(i)

\* The caller is polled whenever it can go on, the runtime polls every
\* spawned task that can make progress, and the transport ends every
\* request (with a response, an error or its timeout).
FairSpec ==
  /\ InitConcurrent
  /\ [][NextConcurrent]_vars
  /\ WF_vars(CallConcurrent \/ Spawn \/ SpawnDone \/ Join \/ ConcurrentReturn)
  /\ \A i \in 1..MaxQueries : WF_vars(TaskStep(i))

\* ------------------------- search_concurrent when tasks may fail to join
\* As NextConcurrent, in a runtime where a spawned task may panic or be
\* aborted at any await point
JoinNext ==
  \/ CallConcurrent
  \/ Spawn
  \/ SpawnDone
  \/ Join
  \/ ConcurrentReturn
  \/ \E i \in Ids : Acquire(i)
  \/ \E i \in Ids : ValidateAndSend(i)
  \/ \E i \in Ids : SendFails(i)
  \/ \E i \in Ids : ReceiveStatus(i)
  \/ \E i \in Ids : ReadBody(i)
  \/ \E i \in Ids : TaskFailsToJoin(i)

JoinSpec == InitConcurrent /\ [][JoinNext]_vars

\* ------------------------------------------ SearchQuery and its builder
\* The u32 arguments the calls are made with
PageValues == {0, 1, 2}
NumValues == {0, 1, MaxNumResults, MaxNumResults + 1}

\* a call and its argument
Call(fn, arg) == Some([fn |-> fn, arg |-> arg])

\* SearchQuery::new(s)
QueryNew ==
  /\ lib.sq = NoResult
  /\ lib.builder = None
  /\ \E s \in Texts :
       lib' = [lib EXCEPT !.sq = SearchQuery_new(s),
                          !.lastCall = Call("SearchQuery::new", s)]
  /\ UNCHANGED serviceVars

\* a with_* call on the query sq holds gave `query`
Transformed(fn, arg, query) ==
  /\ lib' = [lib EXCEPT !.sq = Ok(query), !.lastCall = Call(fn, arg),
                        !.checked = NoResult, !.serialized = None]
  /\ UNCHANGED serviceVars

WithLocation ==
  /\ lib.sq.tag = "ok"
  /\ Transformed("with_location", <<"a">>, with_location(lib.sq.val, <<"a">>))

WithCountry ==
  /\ lib.sq.tag = "ok"
  /\ Transformed("with_country", <<"a">>, with_country(lib.sq.val, <<"a">>))

WithLanguage ==
  /\ lib.sq.tag = "ok"
  /\ Transformed("with_language", <<"a">>, with_language(lib.sq.val, <<"a">>))

WithPage ==
  /\ lib.sq.tag = "ok"
  /\ \E p \in PageValues : Transformed("with_page", p, with_page(lib.sq.val, p))

WithNumResults ==
  /\ lib.sq.tag = "ok"
  /\ \E n \in NumValues :
       Transformed("with_num_results", n, with_num_results(lib.sq.val, n))

WithPagination ==
  /\ lib.sq.tag = "ok"
  /\ \E page \in PageArgs, num \in NumArgs :
       Transformed("with_pagination", Pagination(page, num),
                   with_pagination(lib.sq.val, Pagination(page, num)))

\* query.validate()
Validate ==
  /\ lib.sq.tag = "ok"
  /\ lib.checked = NoResult
  /\ lib' = [lib EXCEPT !.checked = validate(lib.sq.val)]
  /\ UNCHANGED serviceVars

\* serde_json::to_value(&query)
ToJson ==
  /\ lib.sq.tag = "ok"
  /\ lib.serialized = None
  /\ lib' = [lib EXCEPT !.serialized = Some(Serialize(lib.sq.val))]
  /\ UNCHANGED serviceVars

\* SearchQueryBuilder::new()
BuilderNew ==
  /\ lib.sq = NoResult
  /\ lib.builder = None
  /\ lib' = [lib EXCEPT !.builder = Some(SearchQueryBuilder_new)]
  /\ UNCHANGED serviceVars

\* one of the setters query, location, country, language, page,
\* num_results is called on the builder, before build() consumes it
BuilderSet ==
  /\ lib.builder.some
  /\ lib.built = NoResult
  /\ Len(lib.calls) < MaxCalls
  /\ \E field \in DOMAIN SearchQueryBuilder_new :
       \E value \in CASE field = "query" -> TextsOfLen(0) \cup TextsOfLen(1)
                       [] field = "page" -> PageValues
                       [] field = "num_results" -> NumValues
                       [] OTHER -> {<<"a">>, <<"b">>} :
          lib' = [lib EXCEPT
                    !.builder = Some(builder_set(lib.builder.v, field, value)),
                    !.calls = Append(@, [fn |-> field, arg |-> value])]
  /\ UNCHANGED serviceVars

\* builder.build()
Build ==
  /\ lib.builder.some
  /\ lib.built = NoResult
  /\ lib' = [lib EXCEPT !.built = build(lib.builder.v)]
  /\ UNCHANGED serviceVars

QueryNext ==
  \/ QueryNew
  \/ WithLocation
  \/ WithCountry
  \/ WithLanguage
  \/ WithPage
  \/ WithNumResults
  \/ WithPagination
  \/ Validate
  \/ ToJson
  \/ BuilderNew
  \/ BuilderSet
  \/ Build

QuerySpec == LibInit /\ [][QueryNext]_vars

\* ------------------------------------------------- SearchResponse values
\* Lists of 0..MaxItems items
ItemLists == {[i \in 1..n |-> Organic(<<"t">>, <<"l">>)] : n \in 0..MaxItems}

\* What the JSON object may hold for a section: nothing (the key is
\* missing), null, or a value of the section's type; organic may also be
\* of another type.
SectionChoices(k) ==
  CASE k = "search_metadata" ->
         {[t |-> "absent"], [t |-> "null"], JObject(Metadata(<<"i">>))}
    [] k \in {"answer_box", "knowledge_graph"} ->
         {[t |-> "absent"], [t |-> "null"], JObject([title |-> Some(<<"t">>)])}
    [] k = "organic" ->
         {[t |-> "absent"], [t |-> "null"], [t |-> "string"]}
            \cup {JArray(items) : items \in ItemLists}
    [] OTHER -> {[t |-> "absent"]} \cup {JArray(items) : items \in ItemLists}

\* The JSON objects given to the deserializer
JsonObjects ==
  {[k \in {x \in SectionKeys : f[x].t # "absent"} |-> f[k]] :
     f \in {[search_metadata |-> m, organic |-> o, answer_box |-> a,
             knowledge_graph |-> g, related_questions |-> r,
             shopping |-> sh, news |-> n] :
              m \in SectionChoices("search_metadata"),
              o \in SectionChoices("organic"),
              a \in SectionChoices("answer_box"),
              g \in SectionChoices("knowledge_graph"),
              r \in SectionChoices("related_questions"),
              sh \in SectionChoices("shopping"),
              n \in SectionChoices("news")}}

\* let response: SearchResponse = serde_json::from_value(json)
Deserialize ==
  /\ lib.jsonIn = None
  /\ \E obj \in JsonObjects :
       lib' = [lib EXCEPT !.jsonIn = Some(obj), !.parsed = from_value(obj)]
  /\ UNCHANGED serviceVars

\* response.has_results()
HasResults ==
  /\ lib.parsed.tag = "ok"
  /\ ~lib.seen.has_results.some
  /\ lib' = [lib EXCEPT !.seen.has_results = Some(has_results(lib.parsed.val))]
  /\ UNCHANGED serviceVars

\* response.organic_count()
OrganicCount ==
  /\ lib.parsed.tag = "ok"
  /\ ~lib.seen.organic_count.some
  /\ lib' = [lib EXCEPT !.seen.organic_count = Some(organic_count(lib.parsed.val))]
  /\ UNCHANGED serviceVars

ResponseNext ==
  \/ Deserialize
  \/ HasResults
  \/ OrganicCount

ResponseSpec == LibInit /\ [][ResponseNext]_vars

\* ------------------------------------------------------ SdkConfig values
\* The arguments the calls are made with: base URLs, timeouts in
\* microseconds; the values of the numeric variables and of the logging
\* flag; the environments from_env reads
Urls ==
  {<<>>, <<" ">>, <<"x">>, HttpPrefix \o <<"x">>, HttpsPrefix \o <<"x">>,
   <<" ">> \o HttpPrefix \o <<"x">>, <<"h", "t", "t", "p", ":", "/">>}
Durations == {0, 1, 500000, 999999, 1000000, 1500000}

NumberTexts ==
  {<<>>, <<"0">>, <<"4", "5">>, <<"+", "7">>, <<"-", "1">>, <<"1", "x">>, <<" ", "5">>}
FlagTexts ==
  {<<"t", "r", "u", "e">>, <<"T", "R", "U", "E">>, <<"T", "r", "u", "e">>,
   <<"t", "r", "u", "e", " ">>, <<"f", "a", "l", "s", "e">>, <<"1">>}

Opt(S) == {None} \cup {Some(x) : x \in S}

Envs ==
  {[SERPER_API_KEY |-> k, SERPER_BASE_URL |-> u, SERPER_TIMEOUT_SECS |-> t,
    SERPER_MAX_CONCURRENT |-> m, SERPER_USER_AGENT |-> a,
    SERPER_ENABLE_LOGGING |-> l] :
     k \in Opt({<<>>, <<"k">>}), u \in Opt({<<"x">>, HttpPrefix \o <<"x">>}),
     t \in Opt(NumberTexts), m \in Opt(NumberTexts), a \in Opt({<<"ua">>}),
     l \in Opt(FlagTexts)}

\* SdkConfig::new(api_key)
ConfigNew ==
  /\ lib.cfg = NoResult
  /\ \E k \in {<<>>, <<" ">>, <<"k">>} :
       lib' = [lib EXCEPT !.cfg = Ok(SdkConfig_new(k)),
                          !.lastCall = Call("SdkConfig::new", k)]
  /\ UNCHANGED serviceVars

\* SdkConfig::from_env() in some environment
FromEnv ==
  /\ lib.cfg = NoResult
  /\ \E env \in Envs :
       lib' = [lib EXCEPT !.cfg = from_env(env), !.lastCall = Call("from_env", env)]
  /\ UNCHANGED serviceVars

\* a with_* call on the configuration cfg holds gave `config`
Reconfigured(fn, arg, config) ==
  /\ lib' = [lib EXCEPT !.cfg = Ok(config), !.lastCall = Call(fn, arg),
                        !.verdict = NoResult]
  /\ UNCHANGED serviceVars

WithBaseUrl ==
  /\ lib.cfg.tag = "ok"
  /\ \E u \in Urls :
       Reconfigured("with_base_url", u, with_base_url(lib.cfg.val, u))

WithTimeout ==
  /\ lib.cfg.tag = "ok"
  /\ \E d \in Durations :
       Reconfigured("with_timeout", d, with_timeout(lib.cfg.val, d))

WithMaxConcurrent ==
  /\ lib.cfg.tag = "ok"
  /\ \E m \in {0, 1, 8} :
       Reconfigured("with_max_concurrent", m, with_max_concurrent(lib.cfg.val, m))

\* config.validate()
ConfigValidate ==
  /\ lib.cfg.tag = "ok"
  /\ lib.verdict = NoResult
  /\ lib' = [lib EXCEPT !.verdict = SdkConfig_validate(lib.cfg.val)]
  /\ UNCHANGED serviceVars

ConfigNext ==
  \/ ConfigNew
  \/ FromEnv
  \/ WithBaseUrl
  \/ WithTimeout
  \/ WithMaxConcurrent
  \/ ConfigValidate

ConfigSpec == LibInit /\ [][ConfigNext]_vars

\* ------------------------------------------- SearchService construction
\* a builder as its setters leave it
ServiceBuilders ==
  {[api_key |-> k, base_url |-> u, transport_config |-> TransportConfig_new] :
     k \in Opt(Texts), u \in Opt({HttpPrefix \o <<"x">>})}

\* SearchService::new(api_key); the call is kept with the key it was given
ServiceNew ==
  /\ lib.service = NoResult
  /\ \E key \in Texts, builds \in BOOLEAN :
       lib' = [lib EXCEPT
                 !.service = SearchService_new(key, builds),
                 !.lastCall = Call("SearchService::new", [api_key |-> Some(key)])]
  /\ UNCHANGED serviceVars

\* SearchService::with_config(api_key, base_url, config)
ServiceWithConfig ==
  /\ lib.service = NoResult
  /\ \E key \in Texts, builds \in BOOLEAN :
       lib' = [lib EXCEPT
                 !.service = SearchService_with_config(key, HttpPrefix \o <<"x">>,
                                                       TransportConfig_new, builds),
                 !.lastCall = Call("SearchService::with_config",
                                   [api_key |-> Some(key)])]
  /\ UNCHANGED serviceVars

\* SearchServiceBuilder::new() .. .build()
ServiceBuild ==
  /\ lib.service = NoResult
  /\ \E b \in ServiceBuilders, builds \in BOOLEAN :
       lib' = [lib EXCEPT
                 !.service = SearchServiceBuilder_build(b, builds),
                 !.lastCall = Call("SearchServiceBuilder::build",
                                   [api_key |-> b.api_key])]
  /\ UNCHANGED serviceVars

\* service.search(&query) up to the request: query.validate()?, then
\* post_json sends the request
ServiceSearch ==
  /\ lib.service.tag = "ok"
  /\ Len(lib.requests) < MaxSearches
  /\ \E query \in {Numbered(1), Numbered(2), QBlank} :
       /\ validate(query).tag = "ok"
       /\ lib' = [lib EXCEPT
                    !.requests = Append(@, post_json_request(lib.service.val, query))]
  /\ UNCHANGED serviceVars

ServiceNext ==
  \/ ServiceNew
  \/ ServiceWithConfig
  \/ ServiceBuild
  \/ ServiceSearch

ServiceSpec == LibInit /\ [][ServiceNext]_vars

\* ------------------------------------------------------ retry::with_retry
\* The configurations with_retry is called with: RetryConfig::new, its
\* with_* setters, and the public fields set directly
RetryConfigs ==
  {[max_attempts |-> n, initial_delay |-> d, backoff_multiplier |-> m, max_delay |-> x] :
     n \in 0..MaxAttempts,
     d \in {0, 1500, from_millis(DefaultInitialDelayMillis), from_secs(20)},
     m \in {1, 2},
     x \in {from_millis(150), from_secs(DefaultMaxDelaySecs)}}

\* What one invocation of the operation may return
Outcomes ==
  {Ok("value"),
   Err([type |-> "reqwest::Error", what |-> "timeout"]),
   Err([type |-> "serde_json::Error", what |-> "eof"]),
   Err([type |-> "SerperError", e |-> api_error(<<"HTTP 500">>)])}

\* with_retry(config, operation): last_error = None, delay = initial_delay
RetryCall ==
  /\ lib.retry.pc = "idle"
  /\ \E config \in RetryConfigs :
       lib' = [lib EXCEPT !.retry = [@ EXCEPT !.pc = "loop", !.config = Some(config),
                                               !.attempt = 0,
                                               !.delay = config.initial_delay]]
  /\ UNCHANGED serviceVars

\* an attempt that sleeps after every failure, the last one included
RetryAttemptSleepsAlways ==
  /\ lib.retry.pc = "loop"
  /\ lib.retry.attempt < lib.retry.config.v.max_attempts
  /\ \E out \in Outcomes :
       LET r == [lib.retry EXCEPT !.trace = Append(@, [kind |-> "op", out |-> out])] IN
       IF out.tag = "ok"
       THEN lib' = [lib EXCEPT !.retry = [r EXCEPT !.pc = "returned", !.ret = out]]
       ELSE lib' = [lib EXCEPT !.retry =
                      [r EXCEPT !.last_error = Some(into(out.err)),
                                !.pc = "sleeping",
                                !.trace = Append(@, [kind |-> "sleep", delay |-> r.delay])]]
  /\ UNCHANGED serviceVars

\* One turn of the for loop: operation().await; Ok returns; Err is kept in
\* last_error and, when another attempt is left, sleep(delay) begins
RetryAttempt ==
  /\ lib.retry.pc = "loop"
  /\ lib.retry.attempt < lib.retry.config.v.max_attempts
  /\ \E out \in Outcomes :
       LET r == [lib.retry EXCEPT !.trace = Append(@, [kind |-> "op", out |-> out])] IN
       IF out.tag = "ok"
       THEN lib' = [lib EXCEPT !.retry = [r EXCEPT !.pc = "returned", !.ret = out]]
       ELSE IF r.attempt + 1 < r.config.v.max_attempts
       THEN lib' = [lib EXCEPT !.retry =
                      [r EXCEPT !.last_error = Some(into(out.err)),
                                !.pc = "sleeping",
                                !.trace = Append(@, [kind |-> "sleep", delay |-> r.delay])]]
       ELSE lib' = [lib EXCEPT !.retry =
                      [r EXCEPT !.last_error = Some(into(out.err)),
                                !.attempt = @ + 1]]
  /\ UNCHANGED serviceVars

\* sleep(delay).await ends: delay is multiplied and capped, the loop goes on
RetrySleepEnds ==
  /\ lib.retry.pc = "sleeping"
  /\ lib' = [lib EXCEPT !.retry =
               [@ EXCEPT !.delay = next_delay(@, lib.retry.config.v),
                         !.attempt = @ + 1,
                         !.pc = "loop"]]
  /\ UNCHANGED serviceVars

\* the loop is over: Err(last_error.unwrap_or_else(..))
RetryExhausted ==
  /\ lib.retry.pc = "loop"
  /\ lib.retry.attempt >= lib.retry.config.v.max_attempts
  /\ lib' = [lib EXCEPT !.retry =
               [@ EXCEPT !.pc = "returned",
                         !.ret = Err(unwrap_or(lib.retry.last_error,
                                               config_error(<<"Unknown retry error">>)))]]
  /\ UNCHANGED serviceVars

RetryNext ==
  \/ RetryCall
  \/ RetryAttempt
  \/ RetrySleepEnds
  \/ RetryExhausted

RetrySpec == LibInit /\ [][RetryNext]_vars

\* ================================================================ claims
Returned == callerPc = "returned"
AllValid == \A i \in Ids : validate(queries[i]).tag = "ok"
InFlight == {i \in Ids : tasks[i].pc \in {"sent", "reading"}}

\* C1: search_concurrent over a transport in which every request succeeds
\* returns exactly N responses, the one at position i being the response to
\* query i, whatever max_concurrent >= 1 and the completion order.
C1_OrderedResults ==
  (op = "concurrent" /\ transport = "ok" /\ AllValid /\ Returned) =>
     /\ ret.tag = "ok"
     /\ Len(ret.val) = N
     /\ \A i \in Ids :
          /\ ret.val[i] = tasks[i].res.val
          /\ ret.val[i].search_metadata.v.id = queries[i].q

\* three responses returned in order while only two requests could overlap
C1_Witness ==
  /\ op = "concurrent" /\ transport = "ok" /\ AllValid /\ Returned
  /\ N = 3 /\ maxArg = Some(2)
  /\ ret.tag = "ok" /\ Len(ret.val) = 3

\* C2: at most max_concurrent requests (5 when the service-level argument
\* is None) are in flight at any time, and a task with a request in flight
\* holds a permit.
C2_BoundedInFlight ==
  op = "concurrent" =>
     /\ maxArg.some => Cardinality(InFlight) <= maxArg.v
     /\ ~maxArg.some => Cardinality(InFlight) <= 5
     /\ \A i \in InFlight : tasks[i].permit

\* the default ceiling is reached: five requests in flight, a sixth task waits
C2_Witness ==
  /\ op = "concurrent" /\ ~maxArg.some
  /\ Cardinality(InFlight) = 5
  /\ \E i \in Ids : tasks[i].pc = "waiting"

C4_SiblingsComplete ==
  (op = "concurrent" /\ MaxConcurrent >= 1) ~>
     (\A i \in Ids : tasks[i].pc = "done" /\ ~tasks[i].permit)

\* the call has returned the error of task 1, and task 2, which sent its
\* request under the only permit, has completed all the same
C4_Witness ==
  /\ op = "concurrent" /\ maxArg = Some(1) /\ Returned /\ ret.tag = "err"
  /\ N >= 2 /\ idx = 1
  /\ tasks[1].wire # <<>>
  /\ tasks[2].pc = "done" /\ tasks[2].wire # <<>>

\* C5: search_multiple issues its requests in input order without overlap:
\* a search is started only when the one before it has fully completed
\* (body parsed, response validated), so at most one request is in flight.
C5_Sequential ==
  op = "multiple" =>
     /\ Cardinality(InFlight) <= 1
     /\ \A i \in Ids : tasks[i].pc # "idle" =>
          \A j \in 1..(i - 1) :
             /\ tasks[j].pc = "done"
             /\ tasks[j].body.some
             /\ tasks[j].res.tag = "ok"

\* the third request is in flight after the first two searches completed
C5_Witness ==
  /\ op = "multiple" /\ N = 3
  /\ tasks[3].pc = "sent"
  /\ tasks[1].pc = "done" /\ tasks[2].pc = "done"

\* C6: search_multiple aborts at the first failing query: it returns that
\* query's error, issues no request for a later query, and does not return
\* the responses obtained before.
C6_AbortAtFirstFailure ==
  op = "multiple" =>
     \A i \in Ids : tasks[i].res.tag = "err" =>
        /\ \A j \in (i + 1)..N : tasks[j].pc = "idle" /\ tasks[j].wire = <<>>
        /\ Returned => ret = tasks[i].res

\* two queries, the first answered and the second failed with an API
\* error: the call returned that error
C6_Witness ==
  /\ op = "multiple" /\ N = 2 /\ Returned
  /\ tasks[1].res.tag = "ok"
  /\ tasks[2].res.tag = "err" /\ tasks[2].res.err.kind = "Api"
  /\ ret.tag = "err" /\ results # <<>>

\* C7: a batch operation over N queries returns either a list of exactly N
\* responses, the i-th being the response to the i-th query, or one error;
\* never a shorter list; for N = 0 an empty list and no request.
C7_AllOrNothing ==
  (op \in {"multiple", "concurrent"} /\ Returned) =>
     /\ ret.tag \in {"ok", "err"}
     /\ ret.tag = "ok" =>
          /\ Len(ret.val) = N
          /\ \A i \in Ids :
               /\ tasks[i].res = Ok(ret.val[i])
               /\ Json(ret.val[i]) \in Bodies(transport, Serialize(queries[i]))
     /\ ret.tag = "err" => \E i \in Ids : ret = tasks[i].res
     /\ N = 0 => ret = Ok(<<>>)

\* a sequential batch of three queries returned its three responses
C7_Witness ==
  /\ op = "multiple" /\ Returned /\ N = 3
  /\ ret.tag = "ok" /\ Len(ret.val) = 3

\* The wire-level conditions C8 names, over a serialized payload
WellFormedPayload(p) ==
  /\ ~IsEmpty(Trim(p["q"]))
  /\ "page" \in DOMAIN p => p["page"] >= 1
  /\ "num" \in DOMAIN p => (1 <= p["num"] /\ p["num"] <= 100)

\* The queries C8 names as failing validate()
Rejected(query) ==
  \/ \A k \in 1..Len(query.q) : query.q[k] = " "
  \/ query.page = Some(0)
  \/ query.num = Some(0)
  \/ (query.num.some /\ query.num.v > 100)

C9_ApiErrorCarriesStatus ==
  \A i \in Ids :
     (tasks[i].status.some /\ ~(tasks[i].status.v \in 200..299)) =>
        /\ tasks[i].pc = "done"
        /\ tasks[i].res.tag = "err"
        /\ tasks[i].res.err.kind = "Api"
        /\ is_api_error(tasks[i].res.err)
        /\ Contains(tasks[i].res.err.message, to_string(tasks[i].status.v))
        /\ ~tasks[i].body.some
        /\ (op = "search" /\ Returned) => ret = tasks[i].res

\* a search answered 599, a status without a reason phrase, returned an
\* API error
C9_Witness ==
  /\ op = "search" /\ Returned
  /\ tasks[1].status = Some(599)
  /\ ret.tag = "err" /\ is_api_error(ret.err)

\* C10: a 200 answer whose body is not valid JSON or not of the response
\* shape makes search return an error of kind Json or Request, never a
\* success and no other kind.
C10_MalformedBodyIsError ==
  \A i \in Ids :
     (tasks[i].status = Some(200) /\ tasks[i].body.some
        /\ tasks[i].body.v.kind \in {"garbage", "wrong_shape"}) =>
        /\ tasks[i].pc = "done"
        /\ tasks[i].res.tag = "err"
        /\ tasks[i].res.err.kind \in {"Json", "Request"}
        /\ (op = "search" /\ Returned) => ret = tasks[i].res

\* a search answered 200 with JSON of another shape returned an error
C10_Witness ==
  /\ op = "search" /\ Returned
  /\ tasks[1].status = Some(200)
  /\ tasks[1].body = Some(WrongShape)
  /\ ret.tag = "err"

\* What C11 names as structurally invalid in a parsed response
StructurallyBad(r) ==
  \/ (r.search_metadata.some /\ Len(r.search_metadata.v.id) = 0)
  \/ (r.organic.some /\
        \E k \in 1..Len(r.organic.v) :
           Len(r.organic.v[k].title) = 0 \/ Len(r.organic.v[k].link) = 0)

\* C11: search validates the structure of every response it parsed: with
\* metadata of empty id, or an organic result of empty title or empty link,
\* it returns a validation error although the JSON parsed; otherwise it
\* returns the parsed response.
C11_StructuralValidation ==
  \A i \in Ids :
     (tasks[i].body.some /\ tasks[i].body.v.kind = "json") =>
        LET r == tasks[i].body.v.value IN
          /\ tasks[i].pc = "done"
          /\ StructurallyBad(r) =>
               (tasks[i].res.tag = "err" /\ tasks[i].res.err.kind = "Validation")
          /\ ~StructurallyBad(r) => tasks[i].res = Ok(r)
          /\ (op = "search" /\ Returned) => ret = tasks[i].res

\* a search whose answer parsed, with one organic result of empty title,
\* returned a validation error
C11_Witness ==
  /\ op = "search" /\ Returned
  /\ tasks[1].status = Some(200)
  /\ tasks[1].body = Some(Json(Response(None, Some(<<Organic(<<>>, <<"l">>)>>))))
  /\ ret.tag = "err" /\ ret.err.kind = "Validation"

IsBlank(s) == \A k \in 1..Len(s) : s[k] = " "

PageInRange(query) == ~query.page.some \/ query.page.v >= 1
NumInRange(query) == ~query.num.some \/ (1 <= query.num.v /\ query.num.v <= 100)

C15_InvariantAlways ==
  lib.sq.tag = "ok" =>
     lib.sq.val.q # <<>> /\ PageInRange(lib.sq.val) /\ NumInRange(lib.sq.val)

\* C15 amended: every query obtained by new followed by with_* calls has a
\* non-blank q; with_page, with_num_results and with_pagination store the
\* value they are given unchecked (page 0, num 0 and num > 100 included);
\* page >= 1 and 1 <= num <= 100 hold for the queries validate() accepted.
C15_StoredUnchecked ==
  lib.sq.tag = "ok" =>
     /\ ~IsBlank(lib.sq.val.q)
     /\ lib.lastCall.v.fn = "with_page" => lib.sq.val.page = Some(lib.lastCall.v.arg)
     /\ lib.lastCall.v.fn = "with_num_results" => lib.sq.val.num = Some(lib.lastCall.v.arg)
     /\ lib.lastCall.v.fn = "with_pagination" =>
          /\ lib.lastCall.v.arg.page.some => lib.sq.val.page = lib.lastCall.v.arg.page
          /\ lib.lastCall.v.arg.num_results.some => lib.sq.val.num = lib.lastCall.v.arg.num_results
     /\ lib.checked.tag = "ok" => (PageInRange(lib.sq.val) /\ NumInRange(lib.sq.val))

\* with_page(0) gave a query of page 0, which validate() then rejected
C15_Witness ==
  /\ lib.sq.tag = "ok"
  /\ lib.lastCall = Call("with_page", 0)
  /\ lib.sq.val.page = Some(0)
  /\ lib.checked.tag = "err"

\* the argument of the last call of setter fn in a sequence of calls
RECURSIVE LastArg(_, _)
LastArg(cs, fn) ==
  IF cs = <<>> THEN None
  ELSE IF cs[Len(cs)].fn = fn THEN Some(cs[Len(cs)].arg)
  ELSE LastArg(SubSeq(cs, 1, Len(cs) - 1), fn)

\* C16: build(), after any sequence of setter calls, fails with a
\* validation error if the text was never set, is blank, page is 0 or num
\* is outside 1..100; otherwise it returns a query that passes validate()
\* and whose fields are the last values set, absent where never set.
C16_BuildValidates ==
  lib.built # NoResult =>
     LET text == LastArg(lib.calls, "query")
         pg == LastArg(lib.calls, "page")
         nm == LastArg(lib.calls, "num_results")
         bad == \/ ~text.some
                \/ IsBlank(text.v)
                \/ pg = Some(0)
                \/ (nm.some /\ (nm.v < 1 \/ nm.v > 100))
     IN /\ bad => (lib.built.tag = "err" /\ lib.built.err.kind = "Validation")
        /\ ~bad =>
             /\ lib.built.tag = "ok"
             /\ validate(lib.built.val).tag = "ok"
             /\ lib.built.val.q = text.v
             /\ lib.built.val.location = LastArg(lib.calls, "location")
             /\ lib.built.val.gl = LastArg(lib.calls, "country")
             /\ lib.built.val.hl = LastArg(lib.calls, "language")
             /\ lib.built.val.page = pg
             /\ lib.built.val.num = nm

\* page set to 0 and then to 1: build() returned a query of page 1
C16_Witness ==
  /\ Len(lib.calls) = 3
  /\ lib.calls[2].fn = "page" /\ lib.calls[2].arg = 0
  /\ lib.calls[3].fn = "page" /\ lib.calls[3].arg = 1
  /\ lib.built.tag = "ok" /\ lib.built.val.page = Some(1)

\* C17: the JSON payload of a query has the key q always, each of
\* location, gl, hl, page, num iff that field is present, with the field's
\* value (never null), and no other key.
C17_PayloadKeys ==
  lib.serialized.some =>
     LET p == lib.serialized.v IN
       /\ DOMAIN p =
            {"q"} \cup {k \in {"location", "gl", "hl", "page", "num"} : lib.sq.val[k].some}
       /\ p["q"] = lib.sq.val.q
       /\ \A k \in DOMAIN p \ {"q"} : Some(p[k]) = lib.sq.val[k]

\* a query with location and page, and nothing else, serialized to the
\* keys q, location and page
C17_Witness ==
  /\ lib.serialized.some
  /\ DOMAIN lib.serialized.v = {"q", "location", "page"}
  /\ lib.sq.val.location.some /\ lib.sq.val.page.some /\ ~lib.sq.val.num.some

\* C18: a response deserialized from {} has every section absent,
\* has_results() false and organic_count() 0; has_results() is true iff
\* organic, shopping or news is present and not empty, or answer_box or
\* knowledge_graph is present; organic_count() is the length of organic, 0
\* when it is absent.
C18_EmptyAndCounts ==
  lib.parsed.tag = "ok" =>
     LET r == lib.parsed.val
         filled(k) == r[k] # None /\ Len(r[k].v) > 0
     IN /\ DOMAIN lib.jsonIn.v = {} =>
             /\ \A k \in DOMAIN r : r[k] = None
             /\ DOMAIN r = SectionKeys
             /\ lib.seen.has_results.some => lib.seen.has_results.v = FALSE
             /\ lib.seen.organic_count.some => lib.seen.organic_count.v = 0
        /\ lib.seen.has_results.some =>
             (lib.seen.has_results.v <=>
                \/ filled("organic") \/ filled("shopping") \/ filled("news")
                \/ r.answer_box # None \/ r.knowledge_graph # None)
        /\ lib.seen.organic_count.some =>
             lib.seen.organic_count.v = (IF r.organic = None THEN 0 ELSE Len(r.organic.v))

\* {} was deserialized and reported no results and no organic result
C18_Witness ==
  /\ lib.jsonIn.some /\ DOMAIN lib.jsonIn.v = {}
  /\ lib.parsed.tag = "ok"
  /\ lib.seen.has_results = Some(FALSE)
  /\ lib.seen.organic_count = Some(0)

\* C19 as stated: SdkConfig::validate() returns Ok iff the API key is not
\* empty, the base URL is not empty and starts with http:// or https://,
\* the timeout is strictly positive, whatever its number of milliseconds,
\* and max_concurrent_requests is strictly positive; otherwise it returns
\* a configuration error.
C19_ValidateIff ==
  lib.verdict # NoResult =>
     LET c == lib.cfg.val
         good == /\ c.api_key # <<>>
                 /\ c.base_url # <<>>
                 /\ \/ /\ Len(c.base_url) >= 7
                       /\ SubSeq(c.base_url, 1, 7) = <<"h", "t", "t", "p", ":", "/", "/">>
                    \/ /\ Len(c.base_url) >= 8
                       /\ SubSeq(c.base_url, 1, 8) = <<"h", "t", "t", "p", "s", ":", "/", "/">>
                 /\ c.timeout > 0
                 /\ c.max_concurrent_requests > 0
     IN /\ good <=> lib.verdict.tag = "ok"
        /\ ~good => (lib.verdict.tag = "err" /\ lib.verdict.err.kind = "Config")

\* "true" in any letter case
SpellsTrue(s) ==
  /\ Len(s) = 4
  /\ s[1] \in {"t", "T"} /\ s[2] \in {"r", "R"}
  /\ s[3] \in {"u", "U"} /\ s[4] \in {"e", "E"}

\* the text is the decimal writing of n, with or without a leading "+"
Spells(s, n) == s = to_string(n) \/ s = <<"+">> \o to_string(n)

Panicked == {i \in Ids : tasks[i].pc = "panicked"}

\* C22 as stated: whenever search_concurrent returns while a task it
\* spawned has failed to join, it returns an error of the Config kind.
C22_JoinFailureIsConfig ==
  [][(callerPc # "returned" /\ callerPc' = "returned" /\ Panicked # {}) =>
        (ret'.tag = "err" /\ ret'.err.kind = "Config")]_vars

\* C22 amended: the join loop awaits the handles in input order; when the
\* first task that did not return a response is one that failed to join,
\* search_concurrent returns an error of the Config kind (not Request, Api,
\* Json or Validation) and no results; a task that failed to join behind a
\* task that returned an error is not reported.
C22_JoinErrorAtFirstFailure ==
  (op = "concurrent" /\ Returned) =>
     /\ (\E i \in Panicked : \A j \in 1..(i - 1) : tasks[j].res.tag = "ok") =>
          /\ ret.tag = "err"
          /\ ret.err.kind = "Config"
          /\ ret.err.kind \notin {"Request", "Api", "Json", "Validation"}
          /\ tasks[idx].pc = "panicked"
     /\ (ret.tag = "err" /\ tasks[idx].pc = "done") => ret = tasks[idx].res
     /\ (ret.tag = "err" /\ ret.err.kind = "Config") => tasks[idx].pc = "panicked"

\* the first task answered, the second failed to join: a Config error,
\* although one response had been collected
C22_Witness ==
  /\ op = "concurrent" /\ Returned /\ N = 2
  /\ tasks[1].res.tag = "ok"
  /\ tasks[2].pc = "panicked"
  /\ results # <<>>
  /\ ret.tag = "err" /\ ret.err.kind = "Config"

\* C23: for every max_concurrent >= 1 and every list of queries, when every
\* request issued completes, search_concurrent eventually returns, and no
\* task is left waiting for a permit.
C23_EventuallyReturns ==
  (op = "concurrent" /\ MaxConcurrent >= 1) ~>
     (Returned /\ \A i \in Ids : tasks[i].pc # "waiting")

\* three searches went through one permit, one after the other, and the
\* call returned their responses
C23_Witness ==
  /\ op = "concurrent" /\ maxArg = Some(1) /\ N = 3
  /\ Returned /\ ret.tag = "ok"
  /\ \A i \in Ids : tasks[i].pc = "done" /\ tasks[i].wire # <<>>

\* the tasks holding a permit
Holders == {i \in Ids : tasks[i].permit}

\* C24: once the semaphore exists, free permits + tasks holding a permit =
\* max_concurrent; a task holds a permit exactly from the start of its
\* search to its end, whether it succeeded or failed; when all tasks have
\* finished the free permits equal max_concurrent.
C24_PermitAccounting ==
  (op = "concurrent" /\ callerPc # "start") =>
     /\ permits + Cardinality(Holders) = MaxConcurrent
     /\ \A i \in Ids : tasks[i].permit <=> tasks[i].pc \in {"running", "sent", "reading"}
     /\ (\A i \in Ids : tasks[i].pc = "done") => permits = MaxConcurrent

\* two permits, three tasks all finished, one of them failed: both permits
\* are free again
C24_Witness ==
  /\ op = "concurrent" /\ maxArg = Some(2) /\ N = 3
  /\ \A i \in Ids : tasks[i].pc = "done"
  /\ tasks[1].res.tag = "err" /\ tasks[1].wire # <<>>
  /\ tasks[2].res.tag = "ok"
  /\ permits = 2

\* What a search that ended at stage `from` returned: a validation error
\* of the query before anything was sent, a transport or API error after
\* the send and before the body, a decode error or a validation error of
\* the response, or the response, after the body.
EndsAt(from, t, query) ==
  CASE from = "running" ->
         /\ validate(query).tag = "err"
         /\ t.res = validate(query)
         /\ t.wire = <<>> /\ ~t.status.some /\ ~t.body.some
    [] from = "sent" ->
         /\ Len(t.wire) = 1 /\ ~t.body.some
         /\ t.res.tag = "err"
         /\ \/ (~t.status.some /\ t.res.err.kind = "Request")
            \/ (t.status.some /\ ~is_success(t.status.v) /\ t.res.err.kind = "Api")
    [] from = "reading" ->
         /\ Len(t.wire) = 1 /\ t.status.some /\ is_success(t.status.v)
         /\ t.body.some
         /\ \/ (t.body.v.kind # "json" /\ t.res.tag = "err" /\ t.res.err.kind = "Request")
            \/ (t.body.v.kind = "json" /\ validate_response(t.body.v.value).tag = "err"
                  /\ t.res = validate_response(t.body.v.value))
            \/ (t.body.v.kind = "json" /\ validate_response(t.body.v.value).tag = "ok"
                  /\ t.res = Ok(t.body.v.value))
    [] OTHER -> FALSE

Failed == {i \in Ids : tasks[i].res.tag = "err"}

\* What a batch call returns for the results its searches gave, taken in
\* input order: the first error, or all the responses
InOrder(rs) ==
  LET failing == {i \in 1..Len(rs) : rs[i].tag = "err"} IN
  IF failing = {} THEN Ok([i \in 1..Len(rs) |-> rs[i].val])
  ELSE rs[CHOOSE i \in failing : \A j \in failing : i <= j]

\* C28: when several tasks of search_concurrent fail, the error returned
\* is that of the failing query of lowest index, whatever the order in
\* which the tasks completed and whatever max_concurrent; search_multiple
\* returns by the same rule.
C28_LowestIndexError ==
  (op \in {"multiple", "concurrent"} /\ Returned /\ ret.tag = "err") =>
     /\ Failed # {}
     /\ ret = InOrder([i \in Ids |-> tasks[i].res])
     /\ \A i \in Failed : ret = tasks[i].res \/ \E j \in Failed : j < i

\* tasks 2 and 3 both failed, task 3 without sending anything; the error
\* returned is the transport error of task 2
C28_Witness ==
  /\ op = "concurrent" /\ Returned /\ N = 3
  /\ tasks[1].res.tag = "ok"
  /\ tasks[2].res.tag = "err" /\ tasks[2].res.err.kind = "Request"
  /\ tasks[3].res.tag = "err" /\ tasks[3].res.err.kind = "Validation"
  /\ ret = tasks[2].res

\* C29: search_concurrent does not check max_concurrent: with
\* max_concurrent = 0 and at least one query no task gets a permit, no
\* request is issued and the call does not return; with no query it
\* returns an empty result, for every max_concurrent, 0 included.
C29_ZeroPermitsHangs ==
  op = "concurrent" =>
     /\ (maxArg = Some(0) /\ N >= 1) =>
          /\ ~Returned
          /\ permits = 0
          /\ \A i \in Ids :
               /\ tasks[i].pc \in {"idle", "waiting"}
               /\ ~tasks[i].permit
               /\ tasks[i].wire = <<>>
     /\ (N = 0 /\ callerPc = "joining") => (idx > N /\ results = <<>>)
     /\ (N = 0 /\ Returned) => ret = Ok(<<>>)

\* max_concurrent = 0: both tasks are spawned and wait, the caller awaits
\* the first handle
C29_Witness ==
  /\ op = "concurrent" /\ maxArg = Some(0) /\ N = 2
  /\ callerPc = "joining" /\ idx = 1
  /\ \A i \in Ids : tasks[i].pc = "waiting"

C21_BlankKeyRejected ==
  /\ (lib.service # NoResult /\ lib.lastCall.v.arg.api_key.some) =>
       LET key == lib.lastCall.v.arg.api_key.v IN
         /\ (lib.service.tag = "err" /\ lib.service.err.kind = "InvalidApiKey")
               <=> IsBlank(key)
         /\ lib.service.tag = "ok" => lib.service.val.api_key = key
  /\ lib.service.tag # "ok" => lib.requests = <<>>
  /\ \A k \in 1..Len(lib.requests) : ~IsBlank(lib.requests[k].headers["X-API-KEY"])

\* the builder was given a key of two blanks: build() failed with
\* InvalidApiKey
C21_Witness ==
  /\ lib.lastCall = Call("SearchServiceBuilder::build", [api_key |-> Some(<<" ", " ">>)])
  /\ lib.service.tag = "err" /\ lib.service.err.kind = "InvalidApiKey"
  /\ lib.requests = <<>>

\* the invocations of the operation in a trace of with_retry
Invocations(trace) == SelectSeq(trace, LAMBDA x : x.kind = "op")

\* C26: with_retry invokes the operation at most max_attempts times, stops
\* at the first success and returns its value; when all max_attempts >= 1
\* invocations fail it returns the error of the last one; it sleeps exactly
\* once between two consecutive invocations and never after the last.
C26_RetryLoop ==
  lib.retry.pc # "idle" =>
     LET r == lib.retry
         n == Len(r.trace)
         ops == Invocations(r.trace)
     IN /\ Len(ops) <= r.config.v.max_attempts
        /\ \A k \in 1..n : r.trace[k].kind = (IF k % 2 = 1 THEN "op" ELSE "sleep")
        /\ \A k \in 1..(Len(ops) - 1) : ops[k].out.tag = "err"
        /\ (n > 0 /\ r.trace[n].kind = "sleep") =>
             (r.pc \in {"sleeping", "loop"} /\ Len(ops) < r.config.v.max_attempts)
        /\ (r.pc = "returned" /\ n > 0) =>
             /\ r.trace[n].kind = "op"
             /\ r.trace[n].out.tag = "ok" => r.ret = r.trace[n].out
             /\ r.trace[n].out.tag = "err" =>
                  /\ Len(ops) = r.config.v.max_attempts
                  /\ r.ret = Err(into(r.trace[n].out.err))

\* three attempts all failed, with two sleeps between them; the error
\* returned is that of the third, a serde_json error, not of the first
C26_Witness ==
  /\ lib.retry.pc = "returned"
  /\ Len(lib.retry.trace) = 5
  /\ lib.retry.trace[1].out.err.type = "reqwest::Error"
  /\ lib.retry.trace[5].out.tag = "err"
  /\ lib.retry.trace[5].out.err.type = "serde_json::Error"
  /\ lib.retry.ret.tag = "err" /\ lib.retry.ret.err.kind = "Json"

\* C27 as stated: no delay slept between two attempts exceeds max_delay,
\* for every initial_delay; with multiplier 2 the delay before attempt
\* n + 1 is min(2 * the delay before it, max_delay).
C27_DelayCapped ==
  LET r == lib.retry IN
  (r.config.some /\ r.config.v.backoff_multiplier = 2) =>
     \A k \in 1..Len(r.trace) :
        r.trace[k].kind = "sleep" =>
           /\ r.trace[k].delay <= r.config.v.max_delay
           /\ k > 2 =>
                r.trace[k].delay =
                   (IF 2 * r.trace[k - 2].delay <= r.config.v.max_delay
                    THEN 2 * r.trace[k - 2].delay ELSE r.config.v.max_delay)

====
